---------------------------- MODULE Spec2Model ----------------------------
(***************************************************************************)
(* A model of the incident-investigation orchestrator:                     *)
(*   - src/state.py: SharedState and CommunicationBus (the message ledger, *)
(*     the finding list, the phase field);                                 *)
(*   - src/allStandaloneAgents/commander_agent.py: CommanderAgent (triage, *)
(*     collect_findings, correlate, build_rca, run) over the module-level  *)
(*     tables SPECIALIST_FINDINGS and CORRELATION_RULES.                   *)
(*                                                                         *)
(* Conventions.  A Python str that the code indexes or searches (a finding *)
(* title, a rule keyword) is a sequence of one-character strings, so that  *)
(* lower() and the substring test are computed, not assumed.  A float      *)
(* confidence 0.97 is the integer 97 (hundredths).  uid() (uuid4().hex[:8])*)
(* is a draw from a counter: successive draws are distinct.  The step      *)
(* counter and the print/log output of the agents are terminal narration   *)
(* and carry no state another operation reads; they are left out.          *)
(***************************************************************************)
EXTENDS Integers, Sequences, FiniteSets, TLC

(***************************************************************************)
(* Bounds of the model (not program constants).                            *)
(***************************************************************************)
\* Total number of recorded CommanderAgent method calls, over all agents.
MaxCalls == 4
\* Longest message ledger explored.
MaxLedger == 2
\* Longest SharedState.findings list explored.
MaxStateFindings == 2

(***************************************************************************)
(* Strings as character sequences.                                         *)
(***************************************************************************)
\* str.lower() on one character (ASCII letters; every other character is
\* left as it is).
LowerChar(ch) ==
    CASE ch = "A" -> "a" [] ch = "B" -> "b" [] ch = "C" -> "c" [] ch = "D" -> "d"
      [] ch = "E" -> "e" [] ch = "F" -> "f" [] ch = "G" -> "g" [] ch = "H" -> "h"
      [] ch = "I" -> "i" [] ch = "J" -> "j" [] ch = "K" -> "k" [] ch = "L" -> "l"
      [] ch = "M" -> "m" [] ch = "N" -> "n" [] ch = "O" -> "o" [] ch = "P" -> "p"
      [] ch = "Q" -> "q" [] ch = "R" -> "r" [] ch = "S" -> "s" [] ch = "T" -> "t"
      [] ch = "U" -> "u" [] ch = "V" -> "v" [] ch = "W" -> "w" [] ch = "X" -> "x"
      [] ch = "Y" -> "y" [] ch = "Z" -> "z" [] OTHER -> ch

\* f["title"].lower()
Lower(s) == [i \in 1..Len(s) |-> LowerChar(s[i])]

\* Python's `kw in s` for two strings: kw occurs in s as a contiguous run.
Contains(s, kw) ==
    \E off \in 0..(Len(s) - Len(kw)) :
        \A j \in 1..Len(kw) : s[off + j] = kw[j]

(***************************************************************************)
(* commander_agent.py: the module-level tables.                            *)
(***************************************************************************)
Specialists == {"logs_agent", "metrics_agent", "deploy_intel"}

\* Iteration order of the dict SPECIALIST_FINDINGS (insertion order), which
\* is also that of plan["tasks"].
SpecialistOrder == <<"logs_agent", "metrics_agent", "deploy_intel">>

NoId == <<>>
NoAgent == ""

\* The rows of SPECIALIST_FINDINGS the model draws from, with the fields the
\* source writes for them (title, severity, confidence).  These fields are
\* never written after the table is built, so a row of the state carries
\* only its name here and the two keys collect_findings writes.
RowContent ==
    [L1 |-> \* logs_agent[0]: "Java OutOfMemoryError in payment-service"
        [title |-> <<"J","a","v","a"," ","O","u","t","O","f","M","e","m","o","r","y","E","r","r","o","r"," ","i","n"," ","p","a","y","m","e","n","t","-","s","e","r","v","i","c","e">>,
         severity |-> "P1_CRITICAL", confidence |-> 97],
     L2 |-> \* logs_agent[1]: "DB connection pool fully exhausted"
        [title |-> <<"D","B"," ","c","o","n","n","e","c","t","i","o","n"," ","p","o","o","l"," ","f","u","l","l","y"," ","e","x","h","a","u","s","t","e","d">>,
         severity |-> "P1_CRITICAL", confidence |-> 95],
     L4 |-> \* logs_agent[3]: "Expired TLS certificate blocking DB connections"
        [title |-> <<"E","x","p","i","r","e","d"," ","T","L","S"," ","c","e","r","t","i","f","i","c","a","t","e"," ","b","l","o","c","k","i","n","g"," ","D","B"," ","c","o","n","n","e","c","t","i","o","n","s">>,
         severity |-> "P2_HIGH", confidence |-> 98],
     M3 |-> \* metrics_agent[2]: "Error rate surged to 94.2%"
        [title |-> <<"E","r","r","o","r"," ","r","a","t","e"," ","s","u","r","g","e","d"," ","t","o"," ","9","4",".","2","%">>,
         severity |-> "P1_CRITICAL", confidence |-> 97],
     D1 |-> \* deploy_intel[0]: "v2.14.0 introduced unbounded in-memory queue"
        [title |-> <<"v","2",".","1","4",".","0"," ","i","n","t","r","o","d","u","c","e","d"," ","u","n","b","o","u","n","d","e","d"," ","i","n","-","m","e","m","o","r","y"," ","q","u","e","u","e">>,
         severity |-> "P1_CRITICAL", confidence |-> 98],
     D3 |-> \* deploy_intel[2]: "Certificate rotation partial failure"
        [title |-> <<"C","e","r","t","i","f","i","c","a","t","e"," ","r","o","t","a","t","i","o","n"," ","p","a","r","t","i","a","l"," ","f","a","i","l","u","r","e">>,
         severity |-> "P2_HIGH", confidence |-> 97]]

RowNames == DOMAIN RowContent

\* A row before the first collect_findings: no "id" and no "agent" key yet.
Row(name) == [row |-> name, id |-> NoId, agent |-> NoAgent]

\* f["title"]
Title(f) == RowContent[f.row].title

\* The rows each specialist may hold in the model: a selection of the source
\* table's rows, in the source's order.
TablePool ==
    [logs_agent    |-> <<Row("L1"), Row("L2"), Row("L4")>>,
     metrics_agent |-> <<Row("M3")>>,
     deploy_intel  |-> <<Row("D1"), Row("D3")>>]

\* All order-preserving sub-sequences of a sequence.
RECURSIVE SubSeqs(_)
SubSeqs(s) ==
    IF s = <<>> THEN {<<>>}
    ELSE LET rest == SubSeqs(Tail(s))
         IN  rest \cup {<<Head(s)>> \o r : r \in rest}

\* The tables the model starts from: every specialist key is present and
\* holds an order-preserving selection of its rows.
FindingTables ==
    {t \in [Specialists -> UNION {SubSeqs(TablePool[a]) : a \in Specialists}] :
        \A a \in Specialists : t[a] \in SubSeqs(TablePool[a])}

\* CORRELATION_RULES (title, keywords, confidence); the description is
\* narrative text and is carried as a tag.  The arrows of the source titles
\* are written in ASCII.
CORRELATION_RULES ==
    << [title |-> "Memory Leak <-> Unbounded Queue Config", description |-> "d1",
        keywords |-> << <<"m","e","m","o","r","y">>, <<"o","o","m">>,
                        <<"u","n","b","o","u","n","d","e","d">> >>,
        confidence |-> 97],
       [title |-> "Slow Queries <-> Missing Index <-> Pool Exhaustion", description |-> "d2",
        keywords |-> << <<"i","n","d","e","x">>, <<"p","o","o","l">>,
                        <<"c","o","n","n","e","c","t","i","o","n">>,
                        <<"s","l","o","w"," ","q","u","e","r","y">> >>,
        confidence |-> 95],
       [title |-> "Traffic Spike x Degraded Capacity = Cascade", description |-> "d3",
        keywords |-> << <<"t","r","a","f","f","i","c">>, <<"c","a","p","a","c","i","t","y">>,
                        <<"c","i","r","c","u","i","t">>,
                        <<"c","a","s","c","a","d","i","n","g">> >>,
        confidence |-> 93],
       [title |-> "Stale TLS <-> Cert Rotation <-> Canary Failure", description |-> "d4",
        keywords |-> << <<"t","l","s">>, <<"c","e","r","t">> >>,
        confidence |-> 96] >>

(***************************************************************************)
(* state.py: enums.                                                        *)
(***************************************************************************)
InvestigationPhase ==
    {"alert_received", "triage", "parallel_investigation", "correlation",
     "root_cause_analysis", "remediation_plan", "complete"}

\* Declaration order of InvestigationPhase.
PhaseOrder ==
    <<"alert_received", "triage", "parallel_investigation", "correlation",
      "root_cause_analysis", "remediation_plan", "complete">>

Severity == {"P1_CRITICAL", "P2_HIGH", "P3_MEDIUM", "P4_LOW"}

AgentRole == {"commander", "logs_agent", "metrics_agent", "deploy_intel"}

MessageType ==
    {"investigation_task", "finding", "correlation_request", "status_update",
     "escalation", "remediation_action"}


(***************************************************************************)
(* State.                                                                  *)
(***************************************************************************)
\* The CommanderAgent objects of the process.
Cmds == {"c1", "c2"}

VARIABLES
    SPECIALIST_FINDINGS, \* commander_agent.py's module-level table (shared by every agent)
    uidCounter,          \* uidCounter[kind]: number of uid()/uuid4() draws for ids of that prefix
    cmd,                 \* cmd[c]: the fields of CommanderAgent c
    hist,                \* hist[c]: history of c's calls (not program state)
    state,               \* one SharedState object
    returned,            \* history: the messages dispatch/broadcast returned, in call order
    ret,                 \* the most recent SharedState/CommunicationBus call and its return value
    logs,                \* one LogsAgent object and the position of its run()
    metrics              \* one MetricsAgent object and the position of its run()

vars == <<SPECIALIST_FINDINGS, uidCounter, cmd, hist, state, returned, ret, logs, metrics>>

cmdVars == <<SPECIALIST_FINDINGS, cmd, hist>>
busVars == <<state, returned, ret>>
spcVars == <<logs, metrics>>

(***************************************************************************)
(* CommanderAgent.                                                         *)
(***************************************************************************)
Absent == "<absent>"

\* The alerts an agent is constructed with: a dict that has or lacks the
\* keys "source" and "severity" (the "title" key is always given).
Alerts ==
    {[source |-> "PagerDuty", severity |-> "P1"],
     [source |-> "PagerDuty", severity |-> "P2"],
     [source |-> "PagerDuty", severity |-> Absent],
     [source |-> Absent,      severity |-> "P1"]}

\* self.plan = {} of __init__.
EmptyPlan == [hypothesis |-> "", tasks |-> <<>>]

\* The plan triage builds: plan["tasks"] in insertion order.
TriagePlan ==
    [hypothesis |-> "payment-service degradation",
     tasks |-> <<[to |-> "logs_agent",    objective |-> "Find OOM errors, pool exhaustion, stack traces, cascading failures"],
                 [to |-> "metrics_agent", objective |-> "Analyze memory leak, latency, error rates, DB pool, pod health"],
                 [to |-> "deploy_intel",  objective |-> "Map deployments + infra changes against incident timeline"]>>]

\* CommanderAgent.__init__ ; rca = <<>> is the empty dict {}.
NewCommander(alert) ==
    [alert |-> alert, severity |-> "P4_LOW", findings |-> <<>>,
     correlations |-> <<>>, plan |-> EmptyPlan, tasks |-> <<>>, rca |-> <<>>]

NewHistory == [calls |-> <<>>, reported |-> {}, runs |-> 0, evaluated |-> <<>>]

\* The specialists a plan names.
Planned(plan) == {plan.tasks[i].to : i \in 1..Len(plan.tasks)}

\* One entry of hist[c].calls: the method, how it ended, and what the agent
\* and the SharedState looked like when it was entered.
CallRecord(w, op, result, after) ==
    [op |-> op, result |-> result, phase |-> state.phase,
     nFindings |-> Len(w.c.findings), nCorr |-> Len(w.c.correlations),
     nCorrAfter |-> Len(after.correlations),
     planned |-> Planned(w.c.plan), reported |-> w.h.reported]

\* The id prefixes of the code: f"find-{uid()}", f"msg-{uid()}", ...
IdKinds == {"find", "msg", "corr", "rca"}

\* The k-th id of a prefix drawn after the draws counted in uid.
Uid(uid, kind, k) == <<kind, uid[kind] + k>>

\* The counter after n more draws for a prefix.
Drawn(uid, kind, n) == [uid EXCEPT ![kind] = @ + n]

\* A world is what a CommanderAgent method reads and writes:
\* [sf: the table, uid: the draw counter, c: the agent, h: its history].
Logged(w, op, result, sf2, uid2, c2, reported2) ==
    [sf |-> sf2, uid |-> uid2, c |-> c2,
     h |-> [w.h EXCEPT !.calls = Append(@, CallRecord(w, op, result, c2)),
                       !.reported = reported2]]

\* lines 119-121: one task per entry of plan["tasks"], appended to self.tasks
DispatchTasks(tasks, plan, uid) ==
    tasks \o [i \in 1..Len(plan.tasks) |->
                [id |-> Uid(uid, "msg", i), to |-> plan.tasks[i].to,
                 objective |-> plan.tasks[i].objective]]

\* CommanderAgent.triage.  dataOk: whether the three load_json calls succeed.
Triage(w, dataOk) ==
    IF w.c.alert.source = Absent \/ w.c.alert.severity = Absent
    THEN \* lines 93-96: alert["source"] / alert["severity"] raise KeyError
         Logged(w, "triage", "KeyError", w.sf, w.uid, w.c, w.h.reported)
    ELSE LET sev == IF w.c.alert.severity = "P1" THEN "P1_CRITICAL" ELSE "P2_HIGH"
         IN  IF ~dataOk
             THEN \* lines 102-103: load_json raises after the severity is set
                  Logged(w, "triage", "IOError", w.sf, w.uid,
                         [w.c EXCEPT !.severity = sev], w.h.reported)
             ELSE Logged(w, "triage", "ok", w.sf, Drawn(w.uid, "msg", Len(TriagePlan.tasks)),
                         [w.c EXCEPT !.severity = sev,
                                     !.plan = TriagePlan,
                                     !.tasks = DispatchTasks(@, TriagePlan, w.uid)],
                         w.h.reported)

\* Number of rows of the table that precede specialist number k.
RECURSIVE RowsBefore(_, _)
RowsBefore(sf, k) ==
    IF k <= 1 THEN 0
    ELSE RowsBefore(sf, k - 1) + Len(sf[SpecialistOrder[k - 1]])

\* The rows of the table as references (agent key, index), in the order
\* collect_findings visits them.
RECURSIVE RefsFrom(_, _)
RefsFrom(sf, k) ==
    IF k > Len(SpecialistOrder) THEN <<>>
    ELSE [i \in 1..Len(sf[SpecialistOrder[k]]) |->
             [agent |-> SpecialistOrder[k], idx |-> i]]
         \o RefsFrom(sf, k + 1)

SpecialistIndex(a) == CHOOSE k \in 1..Len(SpecialistOrder) : SpecialistOrder[k] = a

\* lines 130-131: f["id"] = f"find-{uid()}"; f["agent"] = agent, written into
\* the row of the module-level table itself.
StampRows(sf, uid) ==
    [a \in Specialists |->
        [i \in 1..Len(sf[a]) |->
            [sf[a][i] EXCEPT
                !.id = Uid(uid, "find", RowsBefore(sf, SpecialistIndex(a)) + i),
                !.agent = a]]]

\* CommanderAgent.collect_findings: self.findings receives the rows
\* themselves (references), not copies.
CollectFindings(w) ==
    LET refs == RefsFrom(w.sf, 1)
    IN  Logged(w, "collect_findings", "ok",
               StampRows(w.sf, w.uid), Drawn(w.uid, "find", Len(refs)),
               [w.c EXCEPT !.findings = @ \o refs],
               w.h.reported \cup Specialists)

\* The finding a reference denotes, as it reads now.
Deref(sf, ref) == sf[ref.agent][ref.idx]

\* self.findings as values.
FindingValues(sf, c) == [k \in 1..Len(c.findings) |-> Deref(sf, c.findings[k])]

\* line 145: any(kw in f["title"].lower() for kw in keywords)
Matches(title, keywords) ==
    \E n \in 1..Len(keywords) : Contains(Lower(title), keywords[n])

\* Matches, tabulated once for every row and rule.
MatchTable ==
    [name \in RowNames |->
        [r \in 1..Len(CORRELATION_RULES) |->
            Matches(RowContent[name].title, CORRELATION_RULES[r].keywords)]]

\* lines 144-145 for rule number r: the ids of the matching findings, in
\* list order.
RECURSIVE Linked(_, _)
Linked(fs, r) ==
    IF fs = <<>> THEN <<>>
    ELSE (IF MatchTable[Head(fs).row][r] THEN <<Head(fs).id>> ELSE <<>>)
         \o Linked(Tail(fs), r)

\* line 146 with the threshold off by one
FiresAtOne(linked) == Len(linked) >= 1

\* line 146: if len(linked) >= 2
Fires(linked) == Len(linked) >= 2

\* the link with a confidence recomputed from the number of matches
NewLinkScored(rule, linked, uid) ==
    [id |-> Uid(uid, "corr", 1), title |-> rule.title,
     description |-> rule.description, linked |-> linked,
     confidence |-> rule.confidence - Len(linked)]

\* lines 147-148: the dict appended for a firing rule.
NewLink(rule, linked, uid) ==
    [id |-> Uid(uid, "corr", 1), title |-> rule.title,
     description |-> rule.description, linked |-> linked,
     confidence |-> rule.confidence]

\* lines 143-149 leaving the loop one rule before the end of the table
RECURSIVE CorrelateFromSkippingLast(_, _, _, _)
CorrelateFromSkippingLast(fs, r, correlations, uid) ==
    IF r >= Len(CORRELATION_RULES)
    THEN [correlations |-> correlations, uid |-> uid, evaluated |-> <<>>]
    ELSE LET rule == CORRELATION_RULES[r]
             linked == Linked(fs, r)
             rest == IF Fires(linked)
                     THEN CorrelateFromSkippingLast(fs, r + 1,
                              Append(correlations, NewLink(rule, linked, uid)),
                              Drawn(uid, "corr", 1))
                     ELSE CorrelateFromSkippingLast(fs, r + 1, correlations, uid)
         IN  [rest EXCEPT !.evaluated = <<r>> \o @]

\* lines 143-149 putting each new link in front of the list
RECURSIVE CorrelateFromPrepending(_, _, _, _)
CorrelateFromPrepending(fs, r, correlations, uid) ==
    IF r > Len(CORRELATION_RULES)
    THEN [correlations |-> correlations, uid |-> uid, evaluated |-> <<>>]
    ELSE LET rule == CORRELATION_RULES[r]
             linked == Linked(fs, r)
             rest == IF Fires(linked)
                     THEN CorrelateFromPrepending(fs, r + 1,
                              <<NewLink(rule, linked, uid)>> \o correlations,
                              Drawn(uid, "corr", 1))
                     ELSE CorrelateFromPrepending(fs, r + 1, correlations, uid)
         IN  [rest EXCEPT !.evaluated = <<r>> \o @]

\* lines 143-149: the rules from number r on, in table order.  evaluated
\* lists the rules whose loop body (lines 144-145) was executed, in order.
RECURSIVE CorrelateFrom(_, _, _, _)
CorrelateFrom(fs, r, correlations, uid) ==
    IF r > Len(CORRELATION_RULES)
    THEN [correlations |-> correlations, uid |-> uid, evaluated |-> <<>>]
    ELSE LET rule == CORRELATION_RULES[r]
             linked == Linked(fs, r)
             rest == IF Fires(linked)
                     THEN CorrelateFrom(fs, r + 1,
                              Append(correlations,
                                     NewLink(rule, linked, uid)),
                              Drawn(uid, "corr", 1))
                     ELSE CorrelateFrom(fs, r + 1, correlations, uid)
         IN  [rest EXCEPT !.evaluated = <<r>> \o @]

\* CommanderAgent.correlate.  hist[c].evaluated gets one entry per call: the
\* rules that call evaluated.
Correlate(w) ==
    LET out == CorrelateFrom(FindingValues(w.sf, w.c), 1, w.c.correlations, w.uid)
        l == Logged(w, "correlate", "ok", w.sf, out.uid,
                    [w.c EXCEPT !.correlations = out.correlations], w.h.reported)
    IN  [l EXCEPT !.h.evaluated = Append(@, out.evaluated)]

\* the root causes with a gap in the ranks
RcaRootCausesGap ==
    <<[rank |-> 1, title |-> "Unbounded in-memory queue in v2.14.0",
       confidence |-> 97, category |-> "deployment_regression"],
      [rank |-> 3, title |-> "Missing DB index - full table scans",
       confidence |-> 95, category |-> "infrastructure_gap"]>>

\* lines 166-173: "root_causes" of the report.
RcaRootCauses ==
    <<[rank |-> 1, title |-> "Unbounded in-memory queue in v2.14.0",
       confidence |-> 97, category |-> "deployment_regression"],
      [rank |-> 2, title |-> "Missing DB index - full table scans",
       confidence |-> 95, category |-> "infrastructure_gap"]>>

\* the remediation steps with a SHORT_TERM step ahead of an IMMEDIATE one
RcaRemediationUnordered ==
    <<[p |-> "IMMEDIATE",  action |-> "Rollback to v2.13.2",       risk |-> "LOW"],
      [p |-> "SHORT_TERM", action |-> "Circuit breaker -> 50%",    risk |-> "LOW"],
      [p |-> "IMMEDIATE",  action |-> "Rebuild missing DB index",  risk |-> "LOW"],
      [p |-> "IMMEDIATE",  action |-> "Rotate TLS certs",          risk |-> "LOW"],
      [p |-> "SHORT_TERM", action |-> "K8s memory -> 5Gi",         risk |-> "MEDIUM"],
      [p |-> "PREVENTIVE", action |-> "Bounded queue for v2.14.0", risk |-> "CODE_REVIEW"]>>

\* lines 194-201: "remediation" of the report.
RcaRemediation ==
    <<[p |-> "IMMEDIATE",  action |-> "Rollback to v2.13.2",       risk |-> "LOW"],
      [p |-> "IMMEDIATE",  action |-> "Rebuild missing DB index",  risk |-> "LOW"],
      [p |-> "IMMEDIATE",  action |-> "Rotate TLS certs",          risk |-> "LOW"],
      [p |-> "SHORT_TERM", action |-> "Circuit breaker -> 50%",    risk |-> "LOW"],
      [p |-> "SHORT_TERM", action |-> "K8s memory -> 5Gi",         risk |-> "MEDIUM"],
      [p |-> "PREVENTIVE", action |-> "Bounded queue for v2.14.0", risk |-> "CODE_REVIEW"]>>

\* lines 159-203: the report build_rca writes (the same literal every time,
\* but for its id).
RcaDocument(uid) ==
    [id |-> Uid(uid, "rca", 1), severity |-> "P1_CRITICAL",
     root_causes |-> RcaRootCauses,
     contributing_factors |-> <<"3x traffic from Flash Sale",
                                "Partial TLS cert rotation",
                                "Circuit breaker raised 50%->70%",
                                "JVM heap 4Gi = K8s limit (no GC headroom)",
                                "Deadlocks in batch processor">>,
     remediation |-> RcaRemediation,
     blast_radius |-> <<"payment-service (94%)", "order-service", "api-gateway",
                        "notification-service", "end users">>]

\* CommanderAgent.build_rca
BuildRca(w) ==
    Logged(w, "build_rca", "ok", w.sf, Drawn(w.uid, "rca", 1),
           [w.c EXCEPT !.rca = <<RcaDocument(w.uid)>>], w.h.reported)

\* How the most recent call of a world ended.
LastResult(w) == w.h.calls[Len(w.h.calls)].result

\* CommanderAgent.run: the four stages in sequence; an exception of triage
\* leaves run at that point.
RunStages(w, dataOk) ==
    LET w1 == Triage(w, dataOk)
    IN  IF LastResult(w1) # "ok" THEN w1
        ELSE LET w4 == BuildRca(Correlate(CollectFindings(w1)))
             IN  [w4 EXCEPT !.h.runs = @ + 1]


(***************************************************************************)
(* state.py: SharedState and CommunicationBus.                             *)
(***************************************************************************)
\* Python's None.
None == "<none>"

\* SharedState() with a default phase that is no investigation phase
NewSharedStateBadPhase ==
    [phase |-> "P4_LOW", severity |-> "P4_LOW",
     investigation_plan |-> <<>>, findings |-> <<>>, message_ledger |-> <<>>,
     correlations |-> <<>>, rca |-> None,
     needs_escalation |-> FALSE, investigation_complete |-> FALSE]

\* SharedState(): the dataclass defaults.
NewSharedState ==
    [phase |-> "alert_received", severity |-> "P4_LOW",
     investigation_plan |-> <<>>, findings |-> <<>>, message_ledger |-> <<>>,
     correlations |-> <<>>, rca |-> None,
     needs_escalation |-> FALSE, investigation_complete |-> FALSE]

\* send_message putting the message at the front of the ledger
SendMessageFront(s, msg) == [s EXCEPT !.message_ledger = <<msg>> \o @]

\* send_message appending the message twice
SendMessageTwice(s, msg) == [s EXCEPT !.message_ledger = Append(Append(@, msg), msg)]

\* SharedState.send_message
SendMessage(s, msg) == [s EXCEPT !.message_ledger = Append(@, msg)]

\* SharedState.add_finding
AddFindingTo(s, f) == [s EXCEPT !.findings = Append(@, f)]

\* get_messages_for without the broadcast clause
GetMessagesForDirectOnly(s, agent) ==
    SelectSeq(s.message_ledger, LAMBDA m : m.receiver = agent)

\* get_messages_for without any receiver test
GetMessagesForEveryone(s, agent) == s.message_ledger

\* SharedState.get_messages_for: the list comprehension over the ledger.
RECURSIVE MessagesFor(_, _)
MessagesFor(ledger, agent) ==
    IF ledger = <<>> THEN <<>>
    ELSE (IF Head(ledger).receiver = agent \/ Head(ledger).receiver = "ALL"
          THEN <<Head(ledger)>> ELSE <<>>)
         \o MessagesFor(Tail(ledger), agent)

GetMessagesFor(s, agent) == MessagesFor(s.message_ledger, agent)

\* get_findings_by_agent without the agent test
GetFindingsByAgentAll(s, agent) == s.findings

\* SharedState.get_findings_by_agent
RECURSIVE FindingsBy(_, _)
FindingsBy(fs, agent) ==
    IF fs = <<>> THEN <<>>
    ELSE (IF Head(fs).agent = agent THEN <<Head(fs)>> ELSE <<>>)
         \o FindingsBy(Tail(fs), agent)

GetFindingsByAgent(s, agent) == FindingsBy(s.findings, agent)

\* line 250: [m for m in msgs if m.msg_type == msg_type]
RECURSIVE OfType(_, _)
OfType(msgs, msg_type) ==
    IF msgs = <<>> THEN <<>>
    ELSE (IF Head(msgs).msg_type = msg_type THEN <<Head(msgs)>> ELSE <<>>)
         \o OfType(Tail(msgs), msg_type)

\* CommunicationBus.inbox; `if msg_type:` is false for None.
InboxOf(s, agent, msg_type) ==
    LET msgs == GetMessagesFor(s, agent)
    IN  IF msg_type # None THEN OfType(msgs, msg_type) ELSE msgs

\* Finding.to_dict (agent and severity are str-enums: .value is the string
\* the member equals).
FindingToDict(f) ==
    [id |-> f.id, agent |-> f.agent, title |-> f.title,
     severity |-> f.severity, confidence |-> f.confidence]

\* AgentMessage.to_dict
MessageToDict(m) ==
    [id |-> m.id, sender |-> m.sender, receiver |-> m.receiver,
     msg_type |-> m.msg_type, payload |-> m.payload, in_reply_to |-> m.in_reply_to]

\* SharedState.to_dict ; "rca" is None while no RCA is set.
ToDictOf(s) ==
    [phase |-> s.phase, severity |-> s.severity,
     investigation_plan |-> s.investigation_plan,
     findings |-> [i \in 1..Len(s.findings) |-> FindingToDict(s.findings[i])],
     message_ledger |-> [i \in 1..Len(s.message_ledger) |-> MessageToDict(s.message_ledger[i])],
     correlations |-> s.correlations, rca |-> s.rca,
     needs_escalation |-> s.needs_escalation,
     investigation_complete |-> s.investigation_complete]

\* AgentMessage(...) of dispatch: the id comes from the default factory.
AgentMessage(uid, sender, receiver, msg_type, payload, in_reply_to) ==
    [id |-> Uid(uid, "msg", 1), sender |-> sender, receiver |-> receiver,
     msg_type |-> msg_type, payload |-> payload, in_reply_to |-> in_reply_to]

(***************************************************************************)
(* logs_agent.py: LogsAgent.                                               *)
(***************************************************************************)
\* Longest log_entries list the model draws.
MaxEntries == 2

\* The six check_* methods in the order run() calls them, each with the
\* keyword it searches for and the literal fields of the finding it adds.
LogChecks ==
    <<[check |-> "check_oom_errors",
       keyword |-> <<"O","u","t","O","f","M","e","m","o","r","y","E","r","r","o","r">>,
       title |-> "Java OutOfMemoryError in payment-service",
       severity |-> "P1_CRITICAL", confidence |-> 97],
      [check |-> "check_connection_pool",
       keyword |-> <<"C","o","n","n","e","c","t","i","o","n"," ","p","o","o","l"," ","e","x","h","a","u","s","t","e","d">>,
       title |-> "Database connection pool fully exhausted",
       severity |-> "P1_CRITICAL", confidence |-> 95],
      [check |-> "check_cascading_failure",
       keyword |-> <<"C","a","s","c","a","d","i","n","g"," ","f","a","i","l","u","r","e">>,
       title |-> "Cascading failure: order-service to payment-service",
       severity |-> "P2_HIGH", confidence |-> 92],
      [check |-> "check_tls_errors",
       keyword |-> <<"T","L","S"," ","h","a","n","d","s","h","a","k","e"," ","f","a","i","l","e","d">>,
       title |-> "Expired TLS certificate blocking DB connections",
       severity |-> "P2_HIGH", confidence |-> 98],
      [check |-> "check_deadlocks",
       keyword |-> <<"D","e","a","d","l","o","c","k"," ","d","e","t","e","c","t","e","d">>,
       title |-> "Thread deadlock in batch transaction processor",
       severity |-> "P2_HIGH", confidence |-> 94],
      [check |-> "check_slow_queries",
       keyword |-> <<"D","a","t","a","b","a","s","e"," ","q","u","e","r","y"," ","t","i","m","e","o","u","t">>,
       title |-> "Critical slow query -- missing database index",
       severity |-> "P2_HIGH", confidence |-> 96]>>

\* Message texts of log entries: one per keyword, and one that differs from
\* a keyword in letter case only.
LogMessages ==
    [oom |-> <<"j","a","v","a",".","l","a","n","g",".","O","u","t","O","f","M","e","m","o","r","y","E","r","r","o","r",":"," ","J","a","v","a"," ","h","e","a","p"," ","s","p","a","c","e">>,
     pool |-> <<"C","o","n","n","e","c","t","i","o","n"," ","p","o","o","l"," ","e","x","h","a","u","s","t","e","d">>,
     pool_lower |-> <<"c","o","n","n","e","c","t","i","o","n"," ","p","o","o","l"," ","e","x","h","a","u","s","t","e","d">>,
     cascade |-> <<"C","a","s","c","a","d","i","n","g"," ","f","a","i","l","u","r","e"," ","d","e","t","e","c","t","e","d">>,
     tls |-> <<"T","L","S"," ","h","a","n","d","s","h","a","k","e"," ","f","a","i","l","e","d">>,
     deadlock |-> <<"D","e","a","d","l","o","c","k"," ","d","e","t","e","c","t","e","d"," ","i","n"," ","w","o","r","k","e","r">>,
     slow |-> <<"D","a","t","a","b","a","s","e"," ","q","u","e","r","y"," ","t","i","m","e","o","u","t">>]

LogMessageNames == DOMAIN LogMessages

\* line 53: keyword in l.get("message", ""), for every message and check.
LogHits ==
    [m \in LogMessageNames |->
        [k \in 1..Len(LogChecks) |-> Contains(LogMessages[m], LogChecks[k].keyword)]]

\* A log entry: its message, and whether it carries the keys the checks
\* index with [] ("id", "service", the metadata fields).
LogEntries == [msg : LogMessageNames, complete : BOOLEAN]

\* raw_logs["log_entries"] lists of up to n entries.
RECURSIVE EntryLists(_)
EntryLists(n) ==
    IF n = 0 THEN {<<>>}
    ELSE LET shorter == EntryLists(n - 1)
         IN  shorter \cup {Append(l, x) : l \in {s \in shorter : Len(s) = n - 1}, x \in LogEntries}

\* The methods of run() by position; position 0: run() not called, the
\* position after the last: run() has ended.
LogsRunOrder ==
    <<"receive_task", "ingest_data", "check_oom_errors", "check_connection_pool",
      "check_cascading_failure", "check_tls_errors", "check_deadlocks",
      "check_slow_queries", "report">>

LogsDone == Len(LogsRunOrder) + 1

\* What run() handed back: nothing yet.
NoResult == [shape |-> "none", findings |-> <<>>, message |-> <<>>]

\* LogsAgent.__init__ ; pc is the position of run().
NewLogsAgent(raw_logs, pc) ==
    [raw_logs |-> raw_logs, findings |-> <<>>, log_entries |-> <<>>,
     pc |-> pc, result |-> NoResult]

\* LogsAgent._search_logs for check number k: the positions of the matching
\* entries, in list order.
SearchLogs(entries, k) ==
    SelectSeq([i \in 1..Len(entries) |-> i], LAMBDA i : LogHits[entries[i].msg][k])

\* the finding carrying the dataclass default identity
LogsFindingAsCommander(uid, k, log_ids) ==
    [id |-> Uid(uid, "find", 1), agent |-> "commander",
     title |-> LogChecks[k].title, severity |-> LogChecks[k].severity,
     confidence |-> LogChecks[k].confidence, related_log_ids |-> log_ids]

\* LogsAgent._add_finding as check number k calls it.
LogsFinding(uid, k, log_ids) ==
    [id |-> Uid(uid, "find", 1), agent |-> "logs_agent",
     title |-> LogChecks[k].title, severity |-> LogChecks[k].severity,
     confidence |-> LogChecks[k].confidence, related_log_ids |-> log_ids]

\* lines 323-324 / 242-243: the (id, title, severity) summary of report.
Summary(findings) ==
    [i \in 1..Len(findings) |->
        [id |-> findings[i].id, title |-> findings[i].title,
         severity |-> findings[i].severity]]

\* report counting one finding too many
StatusUpdateMiscount(uid, sender, findings) ==
    [id |-> Uid(uid, "msg", 1), sender |-> sender, receiver |-> "commander",
     type |-> "STATUS_UPDATE",
     payload |-> [status |-> "complete", findings_count |-> Len(findings) + 1,
                  summary |-> Summary(findings)]]

\* LogsAgent.report / MetricsAgent.report: the message dict.
StatusUpdate(uid, sender, findings) ==
    [id |-> Uid(uid, "msg", 1), sender |-> sender, receiver |-> "commander",
     type |-> "STATUS_UPDATE",
     payload |-> [status |-> "complete", findings_count |-> Len(findings),
                  summary |-> Summary(findings)]]

\* return self.findings, message   (message: <<m>>, or <<>> for None)
Pair(findings, message) == [shape |-> "pair", findings |-> findings, message |-> message]

\* return self.findings
BareList(findings) == [shape |-> "list", findings |-> findings, message |-> <<>>]

\* run() left by an exception.
Raised(exc) == [shape |-> exc, findings |-> <<>>, message |-> <<>>]

\* LogsAgent.ingest_data and, when it returns False, the return of run().
LogsIngest(a) ==
    IF a.raw_logs = <<>>
    THEN [a EXCEPT !.pc = LogsDone, !.result = Pair(a.findings, <<>>)]
    ELSE [a EXCEPT !.log_entries = a.raw_logs, !.pc = @ + 1]

\* check number k of LogsAgent (check_oom_errors ... check_slow_queries):
\* skip when nothing matches; entry["id"] and meta[...] raise KeyError on an
\* entry without those keys; otherwise one finding is added.
LogsCheckStep(a, uid, k) ==
    LET matches == SearchLogs(a.log_entries, k)
    IN  IF matches = <<>> THEN [a EXCEPT !.pc = @ + 1]
        ELSE IF \E i \in 1..Len(matches) : ~a.log_entries[matches[i]].complete
        THEN [a EXCEPT !.pc = LogsDone, !.result = Raised("KeyError")]
        ELSE [a EXCEPT !.findings = Append(@, LogsFinding(uid, k, matches)),
                       !.pc = @ + 1]

\* message = self.report(); return self.findings, message
LogsReportStep(a, uid) ==
    [a EXCEPT !.pc = LogsDone,
              !.result = Pair(a.findings, <<StatusUpdate(uid, "logs_agent", a.findings)>>)]

(***************************************************************************)
(* metrics_agent_standalone.py: MetricsAgent.                              *)
(***************************************************************************)
\* The five check_* methods in the order run() calls them, each with the
\* part of raw_metrics that makes it add its finding and the literal fields
\* of that finding (the titles are the source's f-string templates).
MetricChecks ==
    <<[check |-> "check_memory_leak", needs |-> "leak",
       title |-> "Memory leak confirmed - OOM every ~{oom_min} min",
       severity |-> "P1_CRITICAL", confidence |-> 96],
      [check |-> "check_latency", needs |-> "latency",
       title |-> "P99 latency spike: {start}ms -> {peak}ms ({factor}x)",
       severity |-> "P1_CRITICAL", confidence |-> 98],
      [check |-> "check_error_rate", needs |-> "errors",
       title |-> "Error rate surged to {peak}%",
       severity |-> "P1_CRITICAL", confidence |-> 97],
      [check |-> "check_db_pool", needs |-> "pool",
       title |-> "DB pool saturated - {pending} requests queued",
       severity |-> "P1_CRITICAL", confidence |-> 95],
      [check |-> "check_pod_health", needs |-> "unhealthy",
       title |-> "{n} pods critical - {capacity}% capacity remaining",
       severity |-> "P1_CRITICAL", confidence |-> 99]>>

\* raw_metrics: whether services["payment-service"] is there and non-empty,
\* and which of the parts the checks look for it holds (leak_detected, a
\* latency series, an error-rate series, a connection pool, a pod in
\* CrashLoopBackOff/OOMKilled).
MetricInputs ==
    {m \in [svc : BOOLEAN, leak : BOOLEAN, latency : BOOLEAN, errors : BOOLEAN,
            pool : BOOLEAN, unhealthy : BOOLEAN] :
        ~m.svc => ~(m.leak \/ m.latency \/ m.errors \/ m.pool \/ m.unhealthy)}

MetricsRunOrder ==
    <<"receive_task", "ingest_data", "check_memory_leak", "check_latency",
      "check_error_rate", "check_db_pool", "check_pod_health", "report">>

MetricsDone == Len(MetricsRunOrder) + 1

\* MetricsAgent.__init__ ; pc is the position of run().
NewMetricsAgent(raw_metrics, pc) ==
    [raw_metrics |-> raw_metrics, findings |-> <<>>, pc |-> pc, result |-> NoResult]

\* MetricsAgent._add_finding as check number k calls it.
MetricsFinding(uid, k) ==
    [id |-> Uid(uid, "find", 1), agent |-> "metrics_agent",
     title |-> MetricChecks[k].title, severity |-> MetricChecks[k].severity,
     confidence |-> MetricChecks[k].confidence]

\* MetricsAgent.ingest_data and, when it returns False, the return of run():
\* the finding list alone, not a pair.
MetricsIngest(a) ==
    IF ~a.raw_metrics.svc
    THEN [a EXCEPT !.pc = MetricsDone, !.result = BareList(a.findings)]
    ELSE [a EXCEPT !.pc = @ + 1]

\* check number k of MetricsAgent.
MetricsCheckStep(a, uid, k) ==
    IF a.raw_metrics[MetricChecks[k].needs]
    THEN [a EXCEPT !.findings = Append(@, MetricsFinding(uid, k)), !.pc = @ + 1]
    ELSE [a EXCEPT !.pc = @ + 1]

\* message = self.report(); return self.findings, message
MetricsReportStep(a, uid) ==
    [a EXCEPT !.pc = MetricsDone,
              !.result = Pair(a.findings, <<StatusUpdate(uid, "metrics_agent", a.findings)>>)]

\* The inputs of the specialists' __main__ : logs with an OutOfMemoryError
\* and a pool-exhaustion entry, metrics with every part present.
MainLogs ==
    <<[msg |-> "oom", complete |-> TRUE], [msg |-> "pool", complete |-> TRUE]>>

MainMetrics ==
    [svc |-> TRUE, leak |-> TRUE, latency |-> TRUE, errors |-> TRUE,
     pool |-> TRUE, unhealthy |-> TRUE]

(***************************************************************************)
(* Inputs of the bus operations.                                           *)
(***************************************************************************)
\* Who sends what (state.py's MessageType comments: Commander -> Agent,
\* Any -> Commander).
BusTraffic ==
    {[sender |-> "commander",  msg_type |-> "investigation_task"],
     [sender |-> "logs_agent", msg_type |-> "status_update"]}

\* Receivers: a known agent, the broadcast target, and an identity that is
\* no agent.
BusReceivers == {"logs_agent", "ALL", "unknown_agent"}

\* Agents whose inbox is read.
InboxAgents == {"commander", "logs_agent"}

\* Message-type filters of inbox.
InboxTypes == {None, "status_update"}

\* in_reply_to arguments: None (written NoId), the id of a message in the ledger, or an id
\* that no message carries.
ReplyTargets(s) ==
    {NoId, <<"msg", 0>>} \cup {s.message_ledger[i].id : i \in 1..Len(s.message_ledger)}

\* Finding(...) objects handed to add_finding: constructed by the caller,
\* the id from the default factory; one with a confidence inside [0, 1] and
\* one with a confidence outside it.
NewFindings(uid) ==
    {[id |-> Uid(uid, "find", 1), agent |-> "logs_agent", title |-> "t",
      severity |-> "P1_CRITICAL", confidence |-> 95],
     [id |-> Uid(uid, "find", 1), agent |-> "metrics_agent", title |-> "t",
      severity |-> "P2_HIGH", confidence |-> 150]}

(***************************************************************************)
(* Initial state.                                                          *)
(***************************************************************************)
NoCall == [op |-> "none", args |-> <<>>, value |-> None]

\* The alert of commander_agent.py's __main__.
MainAlert == [source |-> "PagerDuty", severity |-> "P1"]

\* The table and the alert a process starts with: any table with the main
\* alert, or any alert with the whole pool as the table.
Setups ==
    {[table |-> t, alert |-> MainAlert] : t \in FindingTables}
    \cup {[table |-> TablePool, alert |-> a] : a \in Alerts}

InitWith(setup) ==
    /\ SPECIALIST_FINDINGS = setup.table
    /\ uidCounter = [k \in IdKinds |-> 0]
    /\ cmd = [c \in Cmds |-> NewCommander(setup.alert)]
    /\ hist = [c \in Cmds |-> NewHistory]
    /\ state = NewSharedState
    /\ returned = <<>>
    /\ ret = NoCall
    /\ logs = NewLogsAgent(MainLogs, 0)
    /\ metrics = NewMetricsAgent(MainMetrics, 0)

Init == \E setup \in Setups : InitWith(setup)

\* The bus operations do not read the table or the alert.
InitBus == InitWith([table |-> TablePool, alert |-> MainAlert])

\* One of the two specialist scripts is started: its agent is constructed
\* on some input and run() is called; the other agent is not run.
InitSpecialists ==
    /\ SPECIALIST_FINDINGS = TablePool
    /\ uidCounter = [k \in IdKinds |-> 0]
    /\ cmd = [c \in Cmds |-> NewCommander(MainAlert)]
    /\ hist = [c \in Cmds |-> NewHistory]
    /\ state = NewSharedState
    /\ returned = <<>>
    /\ ret = NoCall
    /\ \/ /\ \E raw_logs \in EntryLists(MaxEntries) : logs = NewLogsAgent(raw_logs, 1)
          /\ metrics = NewMetricsAgent(MainMetrics, 0)
       \/ /\ logs = NewLogsAgent(MainLogs, 0)
          /\ \E raw_metrics \in MetricInputs : metrics = NewMetricsAgent(raw_metrics, 1)

(***************************************************************************)
(* Actions: CommunicationBus and SharedState.                              *)
(***************************************************************************)
\* CommunicationBus.dispatch
Dispatch(sender, receiver, msg_type, payload, in_reply_to) ==
    /\ Len(state.message_ledger) < MaxLedger
    /\ LET msg == AgentMessage(uidCounter, sender, receiver, msg_type, payload, in_reply_to)
       IN  /\ state' = SendMessage(state, msg)
           /\ returned' = Append(returned, msg)
           /\ ret' = [op |-> "dispatch", args |-> <<receiver>>, value |-> msg]
    /\ uidCounter' = Drawn(uidCounter, "msg", 1)
    /\ UNCHANGED <<cmdVars, spcVars>>

\* CommunicationBus.broadcast
Broadcast(sender, msg_type, payload) ==
    Dispatch(sender, "ALL", msg_type, payload, NoId)

\* CommunicationBus.inbox
Inbox(agent, msg_type) ==
    /\ ret' = [op |-> "inbox", args |-> <<agent, msg_type>>,
               value |-> InboxOf(state, agent, msg_type)]
    /\ UNCHANGED <<state, returned, uidCounter, cmdVars, spcVars>>

\* SharedState.add_finding
AddFinding(f) ==
    /\ Len(state.findings) < MaxStateFindings
    /\ state' = AddFindingTo(state, f)
    /\ uidCounter' = Drawn(uidCounter, "find", 1)
    /\ ret' = [op |-> "add_finding", args |-> <<f.id, f.confidence>>, value |-> None]
    /\ UNCHANGED <<returned, cmdVars, spcVars>>

\* SharedState.get_findings_by_agent
FindingsByAgent(agent) ==
    /\ ret' = [op |-> "get_findings_by_agent", args |-> <<agent>>,
               value |-> GetFindingsByAgent(state, agent)]
    /\ UNCHANGED <<state, returned, uidCounter, cmdVars, spcVars>>

\* SharedState.get_messages_for
MessagesForAgent(agent) ==
    /\ ret' = [op |-> "get_messages_for", args |-> <<agent>>,
               value |-> GetMessagesFor(state, agent)]
    /\ UNCHANGED <<state, returned, uidCounter, cmdVars, spcVars>>

\* SharedState.to_dict
ToDict ==
    /\ ret' = [op |-> "to_dict", args |-> <<>>, value |-> ToDictOf(state)]
    /\ UNCHANGED <<state, returned, uidCounter, cmdVars, spcVars>>

NextBus ==
    \/ \E t \in BusTraffic, receiver \in BusReceivers, reply \in ReplyTargets(state) :
           Dispatch(t.sender, receiver, t.msg_type, "payload", reply)
    \/ \E t \in BusTraffic : Broadcast(t.sender, t.msg_type, "payload")
    \/ \E agent \in InboxAgents, msg_type \in InboxTypes : Inbox(agent, msg_type)
    \/ \E f \in NewFindings(uidCounter) : AddFinding(f)
    \/ \E agent \in {"logs_agent", "metrics_agent"} : FindingsByAgent(agent)
    \/ \E agent \in InboxAgents : MessagesForAgent(agent)
    \/ ToDict

(***************************************************************************)
(* Actions: CommanderAgent.                                                *)
(***************************************************************************)
TotalCalls == Len(hist["c1"].calls) + Len(hist["c2"].calls)

World(c) == [sf |-> SPECIALIST_FINDINGS, uid |-> uidCounter, c |-> cmd[c], h |-> hist[c]]

\* The step that takes agent c's world to w.
Becomes(c, w) ==
    /\ SPECIALIST_FINDINGS' = w.sf
    /\ uidCounter' = w.uid
    /\ cmd' = [cmd EXCEPT ![c] = w.c]
    /\ hist' = [hist EXCEPT ![c] = w.h]
    /\ UNCHANGED <<busVars, spcVars>>

DoTriage(c, dataOk) ==
    /\ TotalCalls < MaxCalls
    /\ Becomes(c, Triage(World(c), dataOk))

DoCollectFindings(c) ==
    /\ TotalCalls < MaxCalls
    /\ Becomes(c, CollectFindings(World(c)))

DoCorrelate(c) ==
    /\ TotalCalls < MaxCalls
    /\ Becomes(c, Correlate(World(c)))

DoBuildRca(c) ==
    /\ TotalCalls < MaxCalls
    /\ Becomes(c, BuildRca(World(c)))

\* CommanderAgent.run
DoRun(c, dataOk) ==
    /\ TotalCalls + 4 <= MaxCalls
    /\ Becomes(c, RunStages(World(c), dataOk))

NextCommander ==
    \/ \E c \in Cmds, dataOk \in BOOLEAN : DoTriage(c, dataOk)
    \/ \E c \in Cmds : DoCollectFindings(c)
    \/ \E c \in Cmds : DoCorrelate(c)
    \/ \E c \in Cmds : DoBuildRca(c)
    \/ \E c \in Cmds, dataOk \in BOOLEAN : DoRun(c, dataOk)

(***************************************************************************)
(* Actions: the runs of LogsAgent and MetricsAgent, method by method.      *)
(***************************************************************************)
LogsReceiveTask ==
    /\ logs.pc = 1
    /\ logs' = [logs EXCEPT !.pc = 2]
    /\ UNCHANGED <<uidCounter, metrics, cmdVars, busVars>>

LogsIngestData ==
    /\ logs.pc = 2
    /\ logs' = LogsIngest(logs)
    /\ UNCHANGED <<uidCounter, metrics, cmdVars, busVars>>

LogsCheck(k) ==
    /\ logs.pc = k + 2
    /\ logs' = LogsCheckStep(logs, uidCounter, k)
    /\ uidCounter' = Drawn(uidCounter, "find", Len(logs'.findings) - Len(logs.findings))
    /\ UNCHANGED <<metrics, cmdVars, busVars>>

LogsReport ==
    /\ logs.pc = Len(LogsRunOrder)
    /\ logs' = LogsReportStep(logs, uidCounter)
    /\ uidCounter' = Drawn(uidCounter, "msg", 1)
    /\ UNCHANGED <<metrics, cmdVars, busVars>>

MetricsReceiveTask ==
    /\ metrics.pc = 1
    /\ metrics' = [metrics EXCEPT !.pc = 2]
    /\ UNCHANGED <<uidCounter, logs, cmdVars, busVars>>

MetricsIngestData ==
    /\ metrics.pc = 2
    /\ metrics' = MetricsIngest(metrics)
    /\ UNCHANGED <<uidCounter, logs, cmdVars, busVars>>

MetricsCheck(k) ==
    /\ metrics.pc = k + 2
    /\ metrics' = MetricsCheckStep(metrics, uidCounter, k)
    /\ uidCounter' = Drawn(uidCounter, "find", Len(metrics'.findings) - Len(metrics.findings))
    /\ UNCHANGED <<logs, cmdVars, busVars>>

MetricsReport ==
    /\ metrics.pc = Len(MetricsRunOrder)
    /\ metrics' = MetricsReportStep(metrics, uidCounter)
    /\ uidCounter' = Drawn(uidCounter, "msg", 1)
    /\ UNCHANGED <<logs, cmdVars, busVars>>

NextSpecialists ==
    \/ LogsReceiveTask
    \/ LogsIngestData
    \/ \E k \in 1..Len(LogChecks) : LogsCheck(k)
    \/ LogsReport
    \/ MetricsReceiveTask
    \/ MetricsIngestData
    \/ \E k \in 1..Len(MetricChecks) : MetricsCheck(k)
    \/ MetricsReport

(***************************************************************************)
(* Specifications.                                                         *)
(***************************************************************************)
\* The CommanderAgent operations, in any order, on any agent.
Spec == Init /\ [][NextCommander]_vars

\* The SharedState / CommunicationBus operations, in any order.
SpecBus == InitBus /\ [][NextBus]_vars

\* One run of a specialist script.
SpecSpecialists == InitSpecialists /\ [][NextSpecialists]_vars


(***************************************************************************)
(* Helpers of the properties.                                              *)
(***************************************************************************)
IsPrefix(s, t) == Len(s) <= Len(t) /\ \A i \in 1..Len(s) : s[i] = t[i]

\* The calls of agent c recorded so far, by position.
CallsOf(c) == hist[c].calls

LastCall(c) == CallsOf(c)[Len(CallsOf(c))]

\* Position of a phase in the total order of the lifecycle (0: no phase).
PhaseRank(p) ==
    IF p \in InvestigationPhase
    THEN CHOOSE k \in 1..Len(PhaseOrder) : PhaseOrder[k] = p
    ELSE 0

(***************************************************************************)
(* C1.  On a fresh SharedState, after N dispatch/broadcast calls the       *)
(* ledger holds exactly N messages and its i-th entry is the message the   *)
(* i-th call returned; the value just returned by dispatch is the last     *)
(* ledger entry.                                                           *)
(***************************************************************************)
C1_LedgerIsCallOrder ==
    /\ Len(state.message_ledger) = Len(returned)
    /\ \A i \in 1..Len(returned) : state.message_ledger[i] = returned[i]
    /\ ret.op = "dispatch" =>
           ret.value = state.message_ledger[Len(state.message_ledger)]

\* A broadcast followed by a direct dispatch, both in the ledger.
C1_Witness ==
    /\ Len(returned) = 2
    /\ returned[1].receiver = "ALL"
    /\ returned[2].receiver = "logs_agent"
    /\ ret.op = "dispatch"

(***************************************************************************)
(* C2.  The ledger and the finding lists are append-only: across every     *)
(* step, the ledger, SharedState.findings and each agent's finding list    *)
(* (read as values) before the step are a prefix of what they are after it.*)
(***************************************************************************)
C2_AppendOnly ==
    [][ /\ IsPrefix(state.message_ledger, state'.message_ledger)
        /\ IsPrefix(state.findings, state'.findings)
        /\ \A c \in Cmds :
              IsPrefix(FindingValues(SPECIALIST_FINDINGS, cmd[c]),
                       FindingValues(SPECIALIST_FINDINGS', cmd'[c])) ]_vars

(***************************************************************************)
(* C3.  Whenever correlate was entered, every specialist named in the      *)
(* agent's plan at that moment had reported (its findings had been         *)
(* collected).                                                             *)
(***************************************************************************)
C3_BarrierBeforeCorrelate ==
    \A c \in Cmds : \A i \in 1..Len(CallsOf(c)) :
        CallsOf(c)[i].op = "correlate" =>
            CallsOf(c)[i].planned \subseteq CallsOf(c)[i].reported

C5_StagePhases(op) ==
    CASE op = "triage"           -> {"alert_received", "triage"}
      [] op = "collect_findings" -> {"parallel_investigation"}
      [] op = "correlate"        -> {"correlation"}
      [] op = "build_rca"        -> {"root_cause_analysis", "remediation_plan"}

C5_StageNeedsMatchingPhase ==
    \A c \in Cmds : \A i \in 1..Len(CallsOf(c)) :
        CallsOf(c)[i].result = "ok" =>
            CallsOf(c)[i].phase \in C5_StagePhases(CallsOf(c)[i].op)

(***************************************************************************)
(* C6.  Once triage has built the plan, every specialist of the plan has   *)
(* exactly one task addressed to it in self.tasks and no task is addressed *)
(* to anyone else, however often triage has run.                           *)
(***************************************************************************)
C6_OneTaskPerSpecialist ==
    \A c \in Cmds :
        cmd[c].plan # EmptyPlan =>
            /\ \A a \in Planned(cmd[c].plan) :
                  Cardinality({i \in 1..Len(cmd[c].tasks) : cmd[c].tasks[i].to = a}) = 1
            /\ \A i \in 1..Len(cmd[c].tasks) : cmd[c].tasks[i].to \in Planned(cmd[c].plan)

(***************************************************************************)
(* C7.  When triage has just completed, the phase is                       *)
(* PARALLEL_INVESTIGATION.                                                 *)
(***************************************************************************)
C7_TriageAdvancesPhase ==
    \A c \in Cmds :
        (/\ Len(CallsOf(c)) > 0
         /\ LastCall(c).op = "triage"
         /\ LastCall(c).result = "ok")
        => state.phase = "parallel_investigation"

(***************************************************************************)
(* C8.  When a full run has returned, the phase is COMPLETE, the           *)
(* investigation-complete flag is set and the agent holds an RCA.          *)
(***************************************************************************)
C8_RunEndsComplete ==
    \A c \in Cmds :
        hist[c].runs >= 1 =>
            /\ state.phase = "complete"
            /\ state.investigation_complete
            /\ cmd[c].rca # <<>>

(***************************************************************************)
(* C9.  inbox(agent, type) returns exactly the ledger messages addressed   *)
(* to the agent or to "ALL", of the given type when one is given, each     *)
(* once and in ledger order.                                               *)
(***************************************************************************)
C9_Wanted(m, agent, msg_type) ==
    /\ m.receiver = agent \/ m.receiver = "ALL"
    /\ msg_type = None \/ m.msg_type = msg_type

C9_InboxExact ==
    ret.op = "inbox" =>
        LET L == state.message_ledger
            R == ret.value
            idx == {i \in 1..Len(L) : C9_Wanted(L[i], ret.args[1], ret.args[2])}
        IN  /\ Len(R) = Cardinality(idx)
            /\ \E f \in [1..Len(R) -> idx] :
                  /\ \A j, k \in 1..Len(R) : j < k => f[j] < f[k]
                  /\ \A k \in 1..Len(R) : R[k] = L[f[k]]

\* The ledger holds a message for another agent and a broadcast; the inbox
\* read returned the broadcast only.
C9_Witness ==
    /\ ret.op = "inbox"
    /\ ret.args = <<"commander", None>>
    /\ Len(state.message_ledger) = 2
    /\ state.message_ledger[1].receiver = "logs_agent"
    /\ state.message_ledger[2].receiver = "ALL"
    /\ ret.value = <<state.message_ledger[2]>>

(***************************************************************************)
(* C10.  In every correlate call and for every rule of the table, the call *)
(* appended a link for the rule if and only if at least 2 entries of the   *)
(* agent's finding list had a title containing, case-insensitively, one of *)
(* the rule's keywords.  (Entries are counted as the list holds them;      *)
(* whether they are distinct findings is C11's matter.)                    *)
(***************************************************************************)
\* Case-insensitive containment, tabulated for every row and rule.
C10_ContainsCI ==
    [name \in RowNames |->
        [r \in 1..Len(CORRELATION_RULES) |->
            \E n \in 1..Len(CORRELATION_RULES[r].keywords) :
                LET t == RowContent[name].title
                    kw == CORRELATION_RULES[r].keywords[n]
                IN  \E off \in 0..(Len(t) - Len(kw)) :
                        \A j \in 1..Len(kw) :
                            LowerChar(t[off + j]) = LowerChar(kw[j])]]

\* Number of entries matching rule r among the first n of agent c's list.
C10_MatchCount(c, n, r) ==
    Cardinality({j \in 1..n :
        C10_ContainsCI[Deref(SPECIALIST_FINDINGS, cmd[c].findings[j]).row][r]})

\* Whether the call recorded as e appended a link for rule r.
C10_Linked(c, e, r) ==
    \E k \in (e.nCorr + 1)..e.nCorrAfter :
        cmd[c].correlations[k].title = CORRELATION_RULES[r].title

C10_LinkIffTwoMatches ==
    \A c \in Cmds : \A i \in 1..Len(CallsOf(c)) :
        CallsOf(c)[i].op = "correlate" =>
            \A r \in 1..Len(CORRELATION_RULES) :
                C10_Linked(c, CallsOf(c)[i], r)
                    <=> C10_MatchCount(c, CallsOf(c)[i].nFindings, r) >= 2

\* One correlate call in which one rule had exactly one matching entry (and
\* got no link) and another had two or more (and got its link).
C10_Witness ==
    \E c \in Cmds : \E i \in 1..Len(CallsOf(c)) :
        /\ CallsOf(c)[i].op = "correlate"
        /\ \E r \in 1..Len(CORRELATION_RULES) :
              /\ C10_MatchCount(c, CallsOf(c)[i].nFindings, r) = 1
              /\ ~C10_Linked(c, CallsOf(c)[i], r)
        /\ \E r \in 1..Len(CORRELATION_RULES) :
              /\ C10_MatchCount(c, CallsOf(c)[i].nFindings, r) >= 2
              /\ C10_Linked(c, CallsOf(c)[i], r)


(***************************************************************************)
(* Helpers of the properties about links.                                  *)
(***************************************************************************)
\* The ids of agent c's finding list as they read now, by position.
FindingIds(c) ==
    [k \in 1..Len(cmd[c].findings) |->
        Deref(SPECIALIST_FINDINGS, cmd[c].findings[k]).id]

\* The elements of a sequence.
Range(s) == {s[i] : i \in 1..Len(s)}

(***************************************************************************)
(* C11.  Every stored link lists at least 2 distinct finding ids, lists no *)
(* id twice, and lists its ids in the order in which they appear in the    *)
(* agent's finding list, after any sequence of collect_findings and        *)
(* correlate calls.                                                        *)
(***************************************************************************)
C11_LinksDistinctInOrder ==
    \A c \in Cmds : \A k \in 1..Len(cmd[c].correlations) :
        LET linked == cmd[c].correlations[k].linked
            ids == FindingIds(c)
        IN  /\ Cardinality(Range(linked)) >= 2
            /\ \A i, j \in 1..Len(linked) : i # j => linked[i] # linked[j]
            /\ \A i, j \in 1..Len(linked) :
                  i < j => \E p, q \in 1..Len(ids) :
                              p < q /\ ids[p] = linked[i] /\ ids[q] = linked[j]

(***************************************************************************)
(* C12.  Every linked id of every stored link is the id of a finding in    *)
(* the agent's current finding list, in every reachable state (also after  *)
(* further collect_findings calls on this or on another agent).            *)
(***************************************************************************)
C12_LinkedIdsExist ==
    \A c \in Cmds : \A k \in 1..Len(cmd[c].correlations) :
        Range(cmd[c].correlations[k].linked) \subseteq Range(FindingIds(c))

(***************************************************************************)
(* C13.  A correlate call that directly follows a correlate call of the    *)
(* same agent, on the same finding set (no collect_findings of any agent   *)
(* in between: the ids the first call linked are still the ids of the      *)
(* findings), adds no link and changes none.                               *)
(***************************************************************************)
\* The step is one correlate call of agent c.
C13_CorrelateStep(c) ==
    /\ Len(hist'[c].calls) = Len(hist[c].calls) + 1
    /\ hist'[c].calls[Len(hist'[c].calls)].op = "correlate"

\* The finding set of c is what it was when c's last call was entered.
C13_SameFindingSet(c) ==
    /\ LastCall(c).nFindings = Len(cmd[c].findings)
    /\ \A k \in (LastCall(c).nCorr + 1)..LastCall(c).nCorrAfter :
          Range(cmd[c].correlations[k].linked) \subseteq Range(FindingIds(c))

C13_SecondCorrelateAddsNothing ==
    [][ \A c \in Cmds :
          (/\ C13_CorrelateStep(c)
           /\ Len(CallsOf(c)) > 0
           /\ LastCall(c).op = "correlate"
           /\ C13_SameFindingSet(c))
          => cmd'[c].correlations = cmd[c].correlations ]_vars

(***************************************************************************)
(* C14.  In every correlate call the rules are evaluated independently and *)
(* in declaration order: the links the call appended are exactly the links *)
(* of the rules with at least 2 matching entries of their own, in the      *)
(* order of the rule table, and each link lists the ids of all entries     *)
(* matching its rule, so an entry matching two firing rules has its id in  *)
(* both links.                                                             *)
(***************************************************************************)
\* The number of the rule a link was made from.
C14_RuleOf(link) ==
    CHOOSE r \in 1..Len(CORRELATION_RULES) : CORRELATION_RULES[r].title = link.title

\* The links appended by the call recorded as e, given the agent's
\* correlations and its findings (as values) right after that call.
C14_CallInOrder(e, correlations, fs) ==
    LET new == SubSeq(correlations, e.nCorr + 1, e.nCorrAfter)
        matching(r) == {j \in 1..e.nFindings : C10_ContainsCI[fs[j].row][r]}
        fired == {r \in 1..Len(CORRELATION_RULES) : Cardinality(matching(r)) >= 2}
    IN  /\ {C14_RuleOf(new[k]) : k \in 1..Len(new)} = fired
        /\ \A k, l \in 1..Len(new) : k < l => C14_RuleOf(new[k]) < C14_RuleOf(new[l])
        /\ \A k \in 1..Len(new) : \A j \in matching(C14_RuleOf(new[k])) :
              fs[j].id \in Range(new[k].linked)

C14_RulesIndependentInOrder ==
    [][ \A c \in Cmds :
          \A i \in (Len(hist[c].calls) + 1)..Len(hist'[c].calls) :
              hist'[c].calls[i].op = "correlate" =>
                  C14_CallInOrder(hist'[c].calls[i], cmd'[c].correlations,
                                  FindingValues(SPECIALIST_FINDINGS', cmd'[c])) ]_vars

\* A correlate call has just appended the links of two rules, in table
\* order, that share a finding id, while another rule had a single matching
\* entry and got no link.
C14_Witness ==
    \E c \in Cmds :
        /\ Len(CallsOf(c)) > 0
        /\ LastCall(c).op = "correlate"
        /\ LastCall(c).nCorrAfter = Len(cmd[c].correlations)
        /\ \E k, l \in (LastCall(c).nCorr + 1)..LastCall(c).nCorrAfter :
              /\ k < l
              /\ C14_RuleOf(cmd[c].correlations[k]) < C14_RuleOf(cmd[c].correlations[l])
              /\ \E id \in Range(FindingIds(c)) :
                    /\ id \in Range(cmd[c].correlations[k].linked)
                    /\ id \in Range(cmd[c].correlations[l].linked)
        /\ \E r \in 1..Len(CORRELATION_RULES) :
              C10_MatchCount(c, Len(cmd[c].findings), r) = 1

(***************************************************************************)
(* C15.  Once an agent holds an RCA, no step changes it: the stored RCA    *)
(* and its id stay what the first build_rca produced.                      *)
(***************************************************************************)
C15_RcaWrittenOnce ==
    [][ \A c \in Cmds : cmd[c].rca # <<>> => cmd'[c].rca = cmd[c].rca ]_vars

(***************************************************************************)
(* C16.  A build_rca call entered with zero findings ends with             *)
(* EmptyEvidence, and an agent without findings holds no RCA; a correlate  *)
(* call entered with zero findings appends no link.                        *)
(***************************************************************************)
C16_EmptyEvidence ==
    \A c \in Cmds :
        /\ cmd[c].findings = <<>> => cmd[c].rca = <<>>
        /\ \A i \in 1..Len(CallsOf(c)) :
              /\ (CallsOf(c)[i].op = "build_rca" /\ CallsOf(c)[i].nFindings = 0)
                    => CallsOf(c)[i].result = "EmptyEvidence"
              /\ (CallsOf(c)[i].op = "correlate" /\ CallsOf(c)[i].nFindings = 0)
                    => CallsOf(c)[i].nCorrAfter = CallsOf(c)[i].nCorr

(***************************************************************************)
(* C17.  When build_rca has just produced an RCA from a non-empty finding  *)
(* list, the RCA's severity is the highest severity among the agent's      *)
(* findings (P1_CRITICAL > P2_HIGH > P3_MEDIUM > P4_LOW).                  *)
(***************************************************************************)
\* Position in the order of severities; 1 is the highest.
C17_SeverityRank(sev) ==
    CASE sev = "P1_CRITICAL" -> 1
      [] sev = "P2_HIGH"     -> 2
      [] sev = "P3_MEDIUM"   -> 3
      [] sev = "P4_LOW"      -> 4

\* The highest severity among the findings of agent c.
C17_MaxSeverity(c) ==
    CHOOSE sev \in Severity :
        /\ \E k \in 1..Len(cmd[c].findings) :
              RowContent[Deref(SPECIALIST_FINDINGS, cmd[c].findings[k]).row].severity = sev
        /\ \A k \in 1..Len(cmd[c].findings) :
              C17_SeverityRank(sev) <=
                  C17_SeverityRank(RowContent[Deref(SPECIALIST_FINDINGS, cmd[c].findings[k]).row].severity)

C18_RanksContiguous ==
    \A c \in Cmds :
        cmd[c].rca # <<>> =>
            \A i \in 1..Len(cmd[c].rca[1].root_causes) :
                cmd[c].rca[1].root_causes[i].rank = i

\* An agent with findings has built an RCA that names more than one root
\* cause.
C18_Witness ==
    \E c \in Cmds :
        /\ cmd[c].findings # <<>>
        /\ Len(CallsOf(c)) > 0
        /\ LastCall(c).op = "build_rca"
        /\ cmd[c].rca # <<>>
        /\ Len(cmd[c].rca[1].root_causes) >= 2

(***************************************************************************)
(* C19.  No two entries of an agent's finding list carry the same id, in   *)
(* every reachable state (also after collect_findings was called more than *)
(* once).                                                                  *)
(***************************************************************************)
C19_FindingIdsUnique ==
    \A c \in Cmds :
        \A i, j \in 1..Len(cmd[c].findings) :
            i # j => FindingIds(c)[i] # FindingIds(c)[j]

(***************************************************************************)
(* C20.  Every finding in SharedState.findings has a confidence within     *)
(* [0, 1] (0..100 in hundredths), and an add_finding call that was handed  *)
(* a finding outside that range was answered with MalformedFinding.        *)
(***************************************************************************)
C20_ConfidenceInRange ==
    /\ \A i \in 1..Len(state.findings) : state.findings[i].confidence \in 0..100
    /\ (ret.op = "add_finding" /\ ret.args[2] \notin 0..100)
           => ret.value = "MalformedFinding"

(***************************************************************************)
(* C21.  Whenever correlate was entered while a specialist of the plan had *)
(* not reported, the ledger held, for each missing specialist, an          *)
(* ESCALATION message naming it.                                           *)
(***************************************************************************)
C21_EscalationForMissing ==
    \A c \in Cmds : \A i \in 1..Len(CallsOf(c)) :
        CallsOf(c)[i].op = "correlate" =>
            \A a \in CallsOf(c)[i].planned \ CallsOf(c)[i].reported :
                \E k \in 1..Len(state.message_ledger) :
                    /\ state.message_ledger[k].msg_type = "escalation"
                    /\ state.message_ledger[k].payload = a

(***************************************************************************)
(* C22.  A specialist run on input in which nothing matches its checks (no *)
(* input data at all, or data none of the checks responds to) returns a    *)
(* pair of an empty finding sequence and a STATUS_UPDATE message whose     *)
(* findings count is zero.                                                 *)
(***************************************************************************)
\* No entry of the logs matches a check's keyword.
C22_LogsHoldNothing ==
    \A i \in 1..Len(logs.raw_logs) : \A k \in 1..Len(LogChecks) :
        ~LogHits[logs.raw_logs[i].msg][k]

\* No part of the metrics makes a check add a finding.
C22_MetricsHoldNothing ==
    \A k \in 1..Len(MetricChecks) : ~metrics.raw_metrics[MetricChecks[k].needs]

\* The result is (<<>>, STATUS_UPDATE with count 0).
C22_EmptyReport(result) ==
    /\ result.shape = "pair"
    /\ result.findings = <<>>
    /\ Len(result.message) = 1
    /\ result.message[1].type = "STATUS_UPDATE"
    /\ result.message[1].payload.findings_count = 0

C22_NothingFoundStillReports ==
    /\ (logs.pc = LogsDone /\ C22_LogsHoldNothing) => C22_EmptyReport(logs.result)
    /\ (metrics.pc = MetricsDone /\ C22_MetricsHoldNothing) => C22_EmptyReport(metrics.result)

(***************************************************************************)
(* C23.  When a specialist's run has returned a STATUS_UPDATE message, the *)
(* payload's findings count is the number of findings the run returned,    *)
(* and the summary has one (id, title, severity) entry per finding, in the *)
(* order of the findings, with the finding's id, title and severity.       *)
(***************************************************************************)
C23_Reconciles(a) ==
    a.result.message # <<>> =>
        LET payload == a.result.message[1].payload
        IN  /\ a.result.findings = a.findings
            /\ payload.findings_count = Len(a.findings)
            /\ Len(payload.summary) = Len(a.findings)
            /\ \A i \in 1..Len(a.findings) :
                  /\ payload.summary[i].id = a.findings[i].id
                  /\ payload.summary[i].title = a.findings[i].title
                  /\ payload.summary[i].severity = a.findings[i].severity

C23_StatusUpdateReconciles ==
    C23_Reconciles(logs) /\ C23_Reconciles(metrics)

\* A LogsAgent run has returned two findings of different checks and its
\* message.
C23_Witness ==
    /\ logs.pc = LogsDone
    /\ Len(logs.findings) = 2
    /\ logs.findings[1].title # logs.findings[2].title
    /\ Len(logs.result.message) = 1

(***************************************************************************)
(* C30.  Every finding of the LogsAgent has agent "logs_agent", every      *)
(* finding of the MetricsAgent has agent "metrics_agent", and each has a   *)
(* severity of the Severity scale.                                         *)
(***************************************************************************)
C30_OwnIdentity ==
    /\ \A i \in 1..Len(logs.findings) :
          /\ logs.findings[i].agent = "logs_agent"
          /\ logs.findings[i].severity \in Severity
    /\ \A i \in 1..Len(metrics.findings) :
          /\ metrics.findings[i].agent = "metrics_agent"
          /\ metrics.findings[i].severity \in Severity

\* A MetricsAgent run in which every check added its finding, or a
\* LogsAgent run that added findings of two severities.
C30_Witness ==
    \/ Len(metrics.findings) = Len(MetricChecks)
    \/ \E i, j \in 1..Len(logs.findings) :
          logs.findings[i].severity # logs.findings[j].severity

(***************************************************************************)
(* C24.  After a triage call on an alert that has its other keys, the      *)
(* agent's severity is P1_CRITICAL for level "P1", P2_HIGH for any other   *)
(* explicit level and P4_LOW for an absent level, and the call did not     *)
(* fail for want of a severity level.                                      *)
(***************************************************************************)
C24_Mapped(level) ==
    IF level = Absent THEN "P4_LOW"
    ELSE IF level = "P1" THEN "P1_CRITICAL" ELSE "P2_HIGH"

C24_SeverityMapping ==
    \A c \in Cmds :
        (cmd[c].alert.source # Absent /\ \E i \in 1..Len(CallsOf(c)) : CallsOf(c)[i].op = "triage")
        => /\ cmd[c].severity = C24_Mapped(cmd[c].alert.severity)
           /\ \A i \in 1..Len(CallsOf(c)) :
                 CallsOf(c)[i].op = "triage" => CallsOf(c)[i].result # "KeyError"

(***************************************************************************)
(* C25.  Every stored link has the confidence of the rule it was made      *)
(* from, and every correlate call appended exactly one link for each rule  *)
(* that fired in it (at least 2 matching entries) and none for any other.  *)
(***************************************************************************)
\* Number of links for rule r among those the call recorded as e appended.
C25_LinksFor(c, e, r) ==
    Cardinality({k \in (e.nCorr + 1)..e.nCorrAfter :
                    cmd[c].correlations[k].title = CORRELATION_RULES[r].title})

C25_PriorConfidenceOneLink ==
    \A c \in Cmds :
        /\ \A k \in 1..Len(cmd[c].correlations) :
              cmd[c].correlations[k].confidence =
                  CORRELATION_RULES[C14_RuleOf(cmd[c].correlations[k])].confidence
        /\ \A i \in 1..Len(CallsOf(c)) :
              CallsOf(c)[i].op = "correlate" =>
                  \A r \in 1..Len(CORRELATION_RULES) :
                      C25_LinksFor(c, CallsOf(c)[i], r) =
                          IF C10_MatchCount(c, CallsOf(c)[i].nFindings, r) >= 2 THEN 1 ELSE 0

\* A correlate call appended the link of a rule matched by four entries
\* (two findings, collected twice) whose confidences differ from the rule's.
C25_Witness ==
    \E c \in Cmds : \E i \in 1..Len(CallsOf(c)) : \E r \in 1..Len(CORRELATION_RULES) :
        /\ CallsOf(c)[i].op = "correlate"
        /\ C10_MatchCount(c, CallsOf(c)[i].nFindings, r) = 4
        /\ C25_LinksFor(c, CallsOf(c)[i], r) = 1
        /\ \E j \in 1..CallsOf(c)[i].nFindings :
              /\ C10_ContainsCI[Deref(SPECIALIST_FINDINGS, cmd[c].findings[j]).row][r]
              /\ RowContent[Deref(SPECIALIST_FINDINGS, cmd[c].findings[j]).row].confidence
                     # CORRELATION_RULES[r].confidence

C27_ParentEarlier ==
    \A i \in 1..Len(state.message_ledger) :
        state.message_ledger[i].in_reply_to # NoId =>
            \E j \in 1..(i - 1) :
                state.message_ledger[j].id = state.message_ledger[i].in_reply_to

(***************************************************************************)
(* C28.  A dispatch to any receiver, known agent or not, appends the       *)
(* message it returns; a ledger message whose receiver is neither a known  *)
(* agent nor "ALL" is in no known agent's inbox, and an inbox read returns *)
(* only messages addressed to the reader or to "ALL".                      *)
(***************************************************************************)
C28_UnknownReceiverAccepted ==
    /\ ret.op = "dispatch" =>
          /\ state.message_ledger # <<>>
          /\ state.message_ledger[Len(state.message_ledger)] = ret.value
          /\ ret.value.receiver = ret.args[1]
    /\ \A i \in 1..Len(state.message_ledger) :
          state.message_ledger[i].receiver \notin AgentRole \cup {"ALL"} =>
              \A a \in AgentRole : \A t \in InboxTypes :
                  state.message_ledger[i] \notin Range(InboxOf(state, a, t))
    /\ ret.op = "inbox" =>
          \A m \in Range(ret.value) : m.receiver \in {ret.args[1], "ALL"}

\* The ledger holds a message to an identity that is no agent and a
\* broadcast; an agent's inbox read returned the broadcast alone.
C28_Witness ==
    /\ ret.op = "inbox"
    /\ Len(state.message_ledger) = 2
    /\ state.message_ledger[1].receiver = "unknown_agent"
    /\ state.message_ledger[2].receiver = "ALL"
    /\ ret.value = <<state.message_ledger[2]>>

(***************************************************************************)
(* C29.  In every stored RCA each remediation step has priority IMMEDIATE, *)
(* SHORT_TERM or PREVENTIVE, and no step is followed by a step of an       *)
(* earlier priority (IMMEDIATE before SHORT_TERM before PREVENTIVE).       *)
(***************************************************************************)
C29_PriorityRank(p) ==
    CASE p = "IMMEDIATE"  -> 1
      [] p = "SHORT_TERM" -> 2
      [] p = "PREVENTIVE" -> 3
      [] OTHER            -> 0

C29_RemediationOrdered ==
    \A c \in Cmds :
        cmd[c].rca # <<>> =>
            LET steps == cmd[c].rca[1].remediation
            IN  /\ \A i \in 1..Len(steps) : C29_PriorityRank(steps[i].p) \in 1..3
                /\ \A i, j \in 1..Len(steps) :
                      i < j => C29_PriorityRank(steps[i].p) <= C29_PriorityRank(steps[j].p)

\* A full run has stored an RCA whose remediation has steps of all three
\* priorities.
C29_Witness ==
    \E c \in Cmds :
        /\ hist[c].runs = 1
        /\ cmd[c].rca # <<>>
        /\ {cmd[c].rca[1].remediation[i].p : i \in 1..Len(cmd[c].rca[1].remediation)}
               = {"IMMEDIATE", "SHORT_TERM", "PREVENTIVE"}

\* ---------------------------------------------------------------------------
\* C31  In one correlation run every rule of the rule table is evaluated
\* exactly once, and the phase advances from CORRELATION to
\* ROOT_CAUSE_ANALYSIS only after the last rule has been evaluated.
\* State form: every completed correlate call of every agent has evaluated
\* each rule number of the table once (as many evaluations as rules, and
\* every rule among them), there is one such record per correlate call, and
\* the SharedState can only show ROOT_CAUSE_ANALYSIS when some correlate call
\* has completed its pass over the table.
C31_OncePerRule(evaluated) ==
    /\ Len(evaluated) = Len(CORRELATION_RULES)
    /\ \A r \in 1..Len(CORRELATION_RULES) :
           Cardinality({i \in 1..Len(evaluated) : evaluated[i] = r}) = 1

C31_CorrelateCalls(c) ==
    {i \in 1..Len(hist[c].calls) : hist[c].calls[i].op = "correlate"}

C32_InvestigationsIsolated ==
    [][ \A c \in Cmds :
            hist'[c] = hist[c] =>
                FindingValues(SPECIALIST_FINDINGS', cmd'[c]) =
                    FindingValues(SPECIALIST_FINDINGS, cmd[c]) ]_vars

(***************************************************************************)
(* C33.  One LogsAgent.run emits at most one finding per check and at most *)
(* six in total, in the order OOM, connection pool, cascading failure,     *)
(* TLS, deadlock, slow query; once the run has ended, a check's finding is *)
(* among the findings if and only if at least one log entry's message      *)
(* contains that check's search phrase; and when the input has no log      *)
(* entries, no check runs and nothing is found.                            *)
(***************************************************************************)
\* The checks whose phrase a message contains, read off the message texts
\* (the comparison is case-sensitive, so pool_lower holds no phrase).
C33_PhrasesIn ==
    [oom |-> {1}, pool |-> {2}, pool_lower |-> {}, cascade |-> {3},
     tls |-> {4}, deadlock |-> {5}, slow |-> {6}]

\* The check a finding comes from, by its title.
C33_CheckOf(f) == CHOOSE k \in 1..Len(LogChecks) : LogChecks[k].title = f.title

C33_OneFindingPerMatchingCheck ==
    /\ Len(logs.findings) <= Len(LogChecks)
    /\ \A i, j \in 1..Len(logs.findings) :
           i < j => C33_CheckOf(logs.findings[i]) < C33_CheckOf(logs.findings[j])
    /\ logs.pc = LogsDone =>
           \A k \in 1..Len(LogChecks) :
               (\E i \in 1..Len(logs.findings) : C33_CheckOf(logs.findings[i]) = k)
               <=> (\E n \in 1..Len(logs.raw_logs) : k \in C33_PhrasesIn[logs.raw_logs[n].msg])
    /\ logs.raw_logs = <<>> =>
           /\ logs.findings = <<>>
           /\ logs.pc \in {0, 1, 2, LogsDone}

(***************************************************************************)
(* C34.  In every reachable SharedState, get_findings_by_agent partitions  *)
(* the finding set: each finding is returned for exactly one agent, its    *)
(* producer; each agent's result keeps the order of the finding set; and   *)
(* the sizes of the results sum to the size of the finding set.  What a    *)
(* get_findings_by_agent call returned holds findings of the asked agent   *)
(* only, all of them from the finding set.                                 *)
(***************************************************************************)
\* The sizes of the results for the given agents, added up.
RECURSIVE C34_TotalSize(_)
C34_TotalSize(agents) ==
    IF agents = {} THEN 0
    ELSE LET a == CHOOSE x \in agents : TRUE
         IN  Len(GetFindingsByAgent(state, a)) + C34_TotalSize(agents \ {a})

\* per is a selection of fs in the order of fs.
C34_KeepsOrder(per, fs) ==
    \A p, q \in 1..Len(per) :
        p < q => \E i, j \in 1..Len(fs) : i < j /\ fs[i] = per[p] /\ fs[j] = per[q]

C34_ByAgentPartitions ==
    /\ \A i \in 1..Len(state.findings) :
           {a \in AgentRole : state.findings[i] \in Range(GetFindingsByAgent(state, a))}
               = {state.findings[i].agent}
    /\ \A a \in AgentRole :
           /\ Range(GetFindingsByAgent(state, a)) \subseteq Range(state.findings)
           /\ C34_KeepsOrder(GetFindingsByAgent(state, a), state.findings)
    /\ C34_TotalSize(AgentRole) = Len(state.findings)
    /\ ret.op = "get_findings_by_agent" =>
           \A p \in 1..Len(ret.value) :
               /\ ret.value[p].agent = ret.args[1]
               /\ ret.value[p] \in Range(state.findings)

\* The finding set holds findings of two producers, and a call for one of
\* them returned that producer's finding alone.
C34_Witness ==
    /\ Len(state.findings) >= 2
    /\ \E i, j \in 1..Len(state.findings) :
           i < j /\ state.findings[i].agent # state.findings[j].agent
    /\ ret.op = "get_findings_by_agent"
    /\ Len(ret.value) = 1
    /\ Len(GetFindingsByAgent(state, ret.args[1])) = 1

=============================================================================
